---- MODULE Spec2Model ----
(***************************************************************************)
(* ISPTranslator worker (src/src/index.ts): a tiered cache-aside lookup.   *)
(* A request is validated, a cache key is derived from text + locale, the  *)
(* edge cache (Cache API) is probed, then the D1 table `translations`,     *)
(* and on a full miss the AI provider is called; the result is truncated,  *)
(* returned, and written back to both tiers by detached tasks              *)
(* (ctx.waitUntil).                                                        *)
(***************************************************************************)
EXTENDS Integers, Sequences, FiniteSets, Bags, TLC

\* ------------------------------------------------------------------ bounds
\* Number of invocations of the handler that may be live at once.
MaxLive == 2
\* Number of requests accepted during one run.
MaxRequests == 2

\* ------------------------------------------------------- program constants
\* index.ts:128  if (text.length > 64)
MaxTextLen == 64
\* index.ts:249  translatedText.substring(0, 64)
TruncLen == 64

\* ------------------------------------------------------------------ strings
\* A string is held run-length encoded: a sequence of runs [c, n], n >= 1,
\* no two adjacent runs with the same character.  Run("a", 64) is the string
\* of 64 a's; "" is <<>>.
Run(c, n) == <<[c |-> c, n |-> n]>>

\* s + t
Concat(s, t) ==
    IF s # <<>> /\ t # <<>> /\ s[Len(s)].c = Head(t).c
    THEN SubSeq(s, 1, Len(s) - 1)
           \o Run(Head(t).c, s[Len(s)].n + Head(t).n)
           \o Tail(t)
    ELSE s \o t

\* a string literal, given character by character
RECURSIVE Lit(_)
Lit(chars) ==
    IF chars = <<>> THEN <<>>
    ELSE Concat(Run(Head(chars), 1), Lit(Tail(chars)))

\* s.length
RECURSIVE Length(_)
Length(s) == IF s = <<>> THEN 0 ELSE Head(s).n + Length(Tail(s))

\* String.prototype.substring(0, n)
RECURSIVE Substring0(_, _)
Substring0(s, n) ==
    IF s = <<>> \/ n <= 0 THEN <<>>
    ELSE IF Head(s).n >= n THEN Run(Head(s).c, n)
    ELSE <<Head(s)>> \o Substring0(Tail(s), n - Head(s).n)

WhiteSpace == {" ", "\t", "\n"}

RECURSIVE TrimStart(_)
TrimStart(s) ==
    IF s # <<>> /\ Head(s).c \in WhiteSpace THEN TrimStart(Tail(s)) ELSE s

RECURSIVE TrimEnd(_)
TrimEnd(s) ==
    IF s # <<>> /\ s[Len(s)].c \in WhiteSpace
    THEN TrimEnd(SubSeq(s, 1, Len(s) - 1))
    ELSE s

\* String.prototype.trim()
Trim(s) == TrimEnd(TrimStart(s))

\* Host names and paths are token sequences ("/" is a token of its own).
\* s.endsWith(suffix), s.includes(part)
EndsWith(s, suffix) ==
    /\ Len(suffix) <= Len(s)
    /\ SubSeq(s, Len(s) - Len(suffix) + 1, Len(s)) = suffix

Includes(s, part) ==
    \E i \in 0..(Len(s) - Len(part)) : SubSeq(s, i + 1, i + Len(part)) = part

\* --------------------------------------------------------------------- URLs
\* A URL is [protocol, hostname, port, pathname, search].
ProdOrigin == [protocol |-> "https:", hostname |-> <<"isp", ".", "example", ".", "com">>,
               port |-> ""]
DevOrigin  == [protocol |-> "http:", hostname |-> <<"localhost">>, port |-> "8787"]

Origins == {ProdOrigin, DevOrigin}

Url(origin, pathname, search) ==
    [protocol |-> origin.protocol, hostname |-> origin.hostname, port |-> origin.port,
     pathname |-> pathname, search |-> search]

\* index.ts:27-29
NormalizePath(pathname) ==
    IF EndsWith(pathname, <<"/">>) /\ Len(pathname) > 1
    THEN SubSeq(pathname, 1, Len(pathname) - 1)
    ELSE pathname

\* index.ts:35-38
IsDev(url) ==
    \/ url.protocol = "http:"
    \/ Includes(url.hostname, <<"localhost">>)
    \/ Includes(url.hostname, <<"127.0.0.1">>)
    \/ url.port # ""


\* ----------------------------------------------------------------- requests
\* env.API_TOKEN
API_TOKEN == "tok"

\* request.headers.get('Authorization'): "" stands for an absent header
\* (null and "" are both falsy at index.ts:53).
AuthHeaders == {"", "bad", API_TOKEN}

\* A request body: json = FALSE is a body request.json() rejects; an absent
\* field is the empty string (undefined and "" are both falsy wherever the
\* handler tests a field: index.ts:88, 100, 123).
Body(text, locale, key) ==
    [json |-> TRUE, text |-> text, locale |-> locale, key |-> key]
BadJson == [json |-> FALSE, text |-> <<>>, locale |-> <<>>, key |-> <<>>]

Request(method, origin, pathname, auth, body) ==
    [method |-> method, url |-> Url(origin, pathname, ""), auth |-> auth,
     body |-> body]

\* ----------------------------------------------------------- key derivation
\* TextEncoder.encode: UTF-8, the identity on the ASCII characters used here.
Encode(s) == s

\* crypto.subtle.digest('MD5', data) rendered as lowercase hex: the digest is
\* taken to be collision-free, so it is the injective image of its input.
Md5Hex(data) == [md5 |-> data]

\* index.ts:134-141
DeriveKey(text, locale) == Md5Hex(Encode(Concat(text, locale)))

\* index.ts:144-146: the request URL with its pathname replaced
CacheKey(url, target_cache_key) ==
    [protocol |-> url.protocol, hostname |-> url.hostname, port |-> url.port,
     pathname |-> <<"/", "cache-bin", "/", target_cache_key>>,
     search |-> url.search, method |-> "GET"]

\* A validation whose length comparison is off by one (text.length >= 64)
ValidateOffByOne(body) ==
    IF body.text = <<>> \/ body.locale = <<>> THEN "Missing text or locale"
    ELSE IF Length(body.text) >= MaxTextLen THEN "Text too long"
    ELSE ""

\* index.ts:123-130: the reason a translate body is refused, "" when accepted
Validate(body) ==
    IF body.text = <<>> \/ body.locale = <<>> THEN "Missing text or locale"
    ELSE IF Length(body.text) > MaxTextLen THEN "Text too long"
    ELSE ""

\* ------------------------------------------------------------------- inputs
Text63  == Run("a", 63)
Text64  == Run("a", 64)
Text65  == Run("a", 65)
LocZ    == Run("z", 1)
LocAZ   == Run("a", 1) \o Run("z", 1)

Root           == <<"/">>
TranslatePath  == <<"/", "translate">>
TranslateSlash == <<"/", "translate", "/">>
CachePath      == <<"/", "cache">>
ClearPath      == <<"/", "cache", "/", "clear">>
DeletePath     == <<"/", "cache", "/", "delete">>
UpdatePath     == <<"/", "cache", "/", "update">>
OtherCachePath == <<"/", "cache", "/", "stats">>

\* Text an administrator stores with /cache/update
AdminText == Run("u", 65)

\* The requests a run draws from, by the branch of the handler they take.
KeyZ == DeriveKey(Text64, LocZ)

Translate(origin, pathname, text, locale) ==
    Request("POST", origin, pathname, API_TOKEN, Body(text, locale, <<>>))

Admin(method, origin, pathname, body) ==
    Request(method, origin, pathname, API_TOKEN, body)

\* two texts with two locales whose concatenations coincide, one on each
\* translate path
ValidRequests ==
    { Translate(ProdOrigin, Root, Text64, LocZ),
      Translate(ProdOrigin, TranslateSlash, Text63, LocAZ) }

InvalidRequests ==
    { Translate(ProdOrigin, Root, Text65, LocZ),
      Translate(ProdOrigin, Root, <<>>, LocZ),
      Translate(ProdOrigin, Root, Text64, <<>>),
      Request("POST", ProdOrigin, Root, API_TOKEN, BadJson) }

PreflightRequests == { Request("OPTIONS", ProdOrigin, Root, "", BadJson) }

UnauthorizedRequests ==
    { Request("POST", ProdOrigin, Root, "", Body(Text64, LocZ, <<>>)),
      Request("POST", ProdOrigin, Root, "bad", Body(Text64, LocZ, <<>>)),
      Request("POST", DevOrigin, ClearPath, "bad", BadJson),
      Request("GET", ProdOrigin, Root, "", BadJson) }

ListRequests == { Admin("GET", DevOrigin, CachePath, BadJson) }

ClearRequests == { Admin("POST", DevOrigin, ClearPath, BadJson) }

DeleteRequests ==
    { Admin("POST", DevOrigin, DeletePath, Body(<<>>, <<>>, KeyZ)),
      Admin("POST", DevOrigin, DeletePath, Body(<<>>, <<>>, <<>>)),
      Admin("POST", DevOrigin, DeletePath, BadJson) }

UpdateRequests ==
    { Admin("POST", DevOrigin, UpdatePath, Body(AdminText, <<>>, KeyZ)),
      Admin("POST", DevOrigin, UpdatePath, Body(<<>>, <<>>, KeyZ)),
      Admin("POST", DevOrigin, UpdatePath, BadJson) }

\* management paths outside development, an unknown management path, and a
\* method the translate route does not take
NotFoundRequests ==
    { Admin("GET", ProdOrigin, CachePath, BadJson),
      Admin("POST", ProdOrigin, ClearPath, BadJson),
      Admin("POST", ProdOrigin, DeletePath, Body(<<>>, <<>>, KeyZ)),
      Admin("POST", ProdOrigin, UpdatePath, Body(AdminText, <<>>, KeyZ)),
      Admin("POST", DevOrigin, OtherCachePath, BadJson),
      Admin("GET", ProdOrigin, Root, BadJson) }

\* The requests that are neither preflight, refused for their token nor a
\* POST to a translate path: the routing decides what becomes of each.
ManagementRequests ==
    ListRequests \cup ClearRequests \cup DeleteRequests \cup UpdateRequests
      \cup NotFoundRequests

Requests ==
    ValidRequests \cup InvalidRequests \cup PreflightRequests
      \cup UnauthorizedRequests \cup ListRequests \cup ClearRequests
      \cup DeleteRequests \cup UpdateRequests \cup NotFoundRequests

\* A routing whose management branch is open to every origin
RouteUngated(q) ==
    LET path == NormalizePath(q.url.pathname) IN
    IF q.method = "OPTIONS" THEN "preflight"
    ELSE IF q.auth = "" \/ q.auth # API_TOKEN THEN "unauthorized"
    ELSE IF Includes(path, CachePath) THEN
        IF EndsWith(path, CachePath) /\ q.method = "GET" THEN "list"
        ELSE IF EndsWith(path, ClearPath) /\ q.method = "POST" THEN "clear"
        ELSE IF EndsWith(path, DeletePath) /\ q.method = "POST" THEN "delete"
        ELSE IF EndsWith(path, UpdatePath) /\ q.method = "POST" THEN "update"
        ELSE "cache404"
    ELSE IF (path = Root \/ path = TranslatePath) /\ q.method = "POST" THEN "translate"
    ELSE "notfound"

\* index.ts:47-112 and 282: the branch of the handler a request takes
Route(q) ==
    LET path == NormalizePath(q.url.pathname) IN
    IF q.method = "OPTIONS" THEN "preflight"
    ELSE IF q.auth = "" \/ q.auth # API_TOKEN THEN "unauthorized"
    ELSE IF IsDev(q.url) /\ Includes(path, CachePath) THEN
        IF EndsWith(path, CachePath) /\ q.method = "GET" THEN "list"
        ELSE IF EndsWith(path, ClearPath) /\ q.method = "POST" THEN "clear"
        ELSE IF EndsWith(path, DeletePath) /\ q.method = "POST" THEN "delete"
        ELSE IF EndsWith(path, UpdatePath) /\ q.method = "POST" THEN "update"
        ELSE "cache404"
    ELSE IF (path = Root \/ path = TranslatePath) /\ q.method = "POST" THEN "translate"
    ELSE "notfound"

\* ---------------------------------------------------------------- responses
NoText == <<>>

TextResponse(status, text) ==
    [status |-> status, text |-> text, original |-> NoText, translated |-> NoText,
     source |-> "", xcache |-> ""]

\* Response.json(result, {headers: {..., 'X-Cache-Status': xcache}})
JsonResponse(result, xcache) ==
    [status |-> 200, text |-> "", original |-> result.original,
     translated |-> result.translated, source |-> result.source, xcache |-> xcache]

\* An exception no handler catches: the runtime answers with its own 500.
Uncaught == TextResponse(500, "uncaught exception")

NoResponse == TextResponse(0, "")

IsResult(rs) == rs.status = 200 /\ rs.source # ""

\* ----------------------------------------------------------------- provider
TranslationError ==
    Lit(<<"T", "r", "a", "n", "s", "l", "a", "t", "i", "o", "n", " ",
          "E", "r", "r", "o", "r">>)

\* choices[0].message.content values the provider may answer with
Contents ==
    { Run("x", 65), Run(" ", 1) \o Run("x", 63) \o Run(" ", 1) }

\* What the call to `${AI_API_URL}/chat/completions` may come back with:
\*   throw        fetch rejects (transport error)
\*   status       a response with !response.ok
\*   notjson      a 2xx response whose body is not JSON
\*   nochoices    JSON without `choices`
\*   emptychoices JSON with `choices: []`
\*   nomessage    JSON whose choices[0] has no message.content
\*   content      JSON with choices[0].message.content = content
ProviderOutcomes ==
    { [kind |-> k, content |-> <<>>] :
        k \in {"throw", "status", "notjson", "nochoices", "emptychoices", "nomessage"} }
      \cup { [kind |-> "content", content |-> c] : c \in Contents }

\* A provider call that does not test response.ok: the body of an error
\* answer is read as a payload without choices
AiResultNoStatusCheck(o) ==
    CASE o.kind \in {"throw", "notjson", "nomessage"} ->
           [thrown |-> TRUE, translatedText |-> <<>>]
      [] o.kind \in {"status", "nochoices", "emptychoices"} ->
           [thrown |-> FALSE, translatedText |-> TranslationError]
      [] OTHER ->
           [thrown |-> FALSE, translatedText |-> Trim(o.content)]

\* index.ts:192-246: translatedText, or thrown = TRUE when the catch block
\* at 243 is entered
AiResult(o) ==
    CASE o.kind \in {"throw", "status", "notjson", "nomessage"} ->
           [thrown |-> TRUE, translatedText |-> <<>>]
      [] o.kind \in {"nochoices", "emptychoices"} ->
           [thrown |-> FALSE, translatedText |-> TranslationError]
      [] OTHER ->
           [thrown |-> FALSE, translatedText |-> Trim(o.content)]

\* A result passed on without truncation
TruncateNone(translatedText) == translatedText

\* index.ts:249
Truncate(translatedText) == Substring0(translatedText, TruncLen)

\* -------------------------------------------------------------------- state
\* An invocation of fetch() is a record
\*   req      the request
\*   pc       "edge", "db", "ai": suspended on that await; "done": returned
\*   trace    the tier, provider and table calls made so far, in order
\*   resp     the response returned
\*   raw      the content the provider answered with, if it did
\*   tasks    the promises handed to ctx.waitUntil
\*   startRow a row for the request's key existed on arrival
\*   expect   the values the tiers held for the request's key on arrival
\*   admin    the management writes run since arrival
VARIABLES
    live,   \* the bag of invocations not yet released by the runtime
    db,     \* rows of table translations
    edge,   \* caches.default: cache key -> stored JSON body
    nreq    \* requests accepted so far

vars == <<live, db, edge, nreq>>

Invocations == BagToSet(live)

\* locals of the handler
Text(v)           == v.req.body.text
Locale(v)         == v.req.body.locale
TargetCacheKey(v) == DeriveKey(Text(v), Locale(v))
CacheKeyOf(v)     == CacheKey(v.req.url, TargetCacheKey(v))

\* SELECT translated_text FROM translations WHERE cache_key = ?
Rows(key) == { row \in db : row.cache_key = key }

\* The values the two tiers hold for a key
Cached(key) ==
    { row.translated_text : row \in Rows(key) }
      \cup { edge[k].translated : k \in { c \in DOMAIN edge : c.pathname[4] = key } }

Put(f, k, v) == [x \in (DOMAIN f) \cup {k} |-> IF x = k THEN v ELSE f[x]]
Drop(f, k)   == [x \in (DOMAIN f) \ {k} |-> f[x]]

Init ==
    /\ live = EmptyBag
    /\ db = {}
    /\ edge = <<>>
    /\ nreq = 0

\* An invocation whose response is out and whose promises have all settled.
Settled(v) == v.pc = "done" /\ \A t \in v.tasks : t.st # "pending"

\* The runtime releases a settled invocation before anything else runs; the
\* release touches only that invocation's own state.
Quiet == \A v \in Invocations : ~Settled(v)

\* The runtime can take one more request.
Free ==
    /\ Quiet
    /\ BagCardinality(live) < MaxLive
    /\ nreq < MaxRequests

\* The invocation of request q as it stands at its first suspension or return.
Invocation(q, pc, trace, resp) ==
    [req |-> q, pc |-> pc, trace |-> trace, resp |-> resp, raw |-> <<>>, tasks |-> {},
     startRow |-> Rows(DeriveKey(q.body.text, q.body.locale)) # {},
     expect |-> Cached(DeriveKey(q.body.text, q.body.locale)),
     admin |-> {}]

Call(op, res) == [op |-> op, res |-> res]

\* A request arrives and runs to `v`.
Arrive(v) ==
    /\ nreq' = nreq + 1
    /\ live' = live (+) SetToBag({v})

\* Invocation v moves on to w.
Step(v, w) == live' = (live (-) SetToBag({v})) (+) SetToBag({w})

\* The handler of v returns `rs` after the call `call`.
Return(v, call, rs) == [v EXCEPT !.pc = "done", !.trace = Append(@, call), !.resp = rs]

\* index.ts:47-49
Preflight ==
    /\ Free
    /\ \E q \in PreflightRequests :
          /\ Route(q) = "preflight"
          /\ Arrive(Invocation(q, "done", <<>>, TextResponse(200, "")))
          /\ UNCHANGED <<db, edge>>

\* index.ts:52-55
Unauthorized ==
    /\ Free
    /\ \E q \in UnauthorizedRequests :
          /\ Route(q) = "unauthorized"
          /\ Arrive(Invocation(q, "done", <<>>, TextResponse(401, "Unauthorized")))
          /\ UNCHANGED <<db, edge>>

\* index.ts:108 and 282
NotFound ==
    /\ Free
    /\ \E q \in ManagementRequests :
          /\ Route(q) \in {"cache404", "notfound"}
          /\ Arrive(Invocation(q, "done", <<>>,
                               TextResponse(404, IF Route(q) = "cache404"
                                                 THEN "Cache Management Route Not Found"
                                                 ELSE "Not Found")))
          /\ UNCHANGED <<db, edge>>

\* --------------------------------------------------------- cache management
\* The response to a management statement that ran (ok) or threw.
Ran(ok) == IF ok THEN TextResponse(200, "success") ELSE TextResponse(500, "e.message")

Outcome(ok) == IF ok THEN "ok" ELSE "error"

\* A management write ran: every live invocation has seen one since its
\* arrival.
Note(v, what) == [v EXCEPT !.admin = @ \cup {what}]
NoteDelete(v) == Note(v, "delete")
NoteUpdate(v) == Note(v, "update")

\* index.ts:65-72
CacheList ==
    /\ Free
    /\ \E q \in ManagementRequests, ok \in BOOLEAN :
          /\ Route(q) = "list"
          /\ Arrive(Invocation(q, "done", <<Call("list", Outcome(ok))>>,
                               IF ok THEN TextResponse(200, "results")
                                     ELSE TextResponse(500, "e.message")))
          /\ UNCHANGED <<db, edge>>

\* index.ts:75-82
CacheClear ==
    /\ Free
    /\ \E q \in ManagementRequests, ok \in BOOLEAN :
          /\ Route(q) = "clear"
          /\ nreq' = nreq + 1
          /\ live' = (IF ok THEN BagOfAll(NoteDelete, live) ELSE live)
                       (+) SetToBag({Invocation(q, "done", <<Call("clear", Outcome(ok))>>,
                                                Ran(ok))})
          /\ db' = IF ok THEN {} ELSE db
          /\ UNCHANGED edge

\* index.ts:85-94
CacheDelete ==
    /\ Free
    /\ \E q \in ManagementRequests :
          /\ Route(q) = "delete"
          /\ IF ~q.body.json
             THEN /\ Arrive(Invocation(q, "done", <<>>, TextResponse(500, "e.message")))
                  /\ UNCHANGED db
             ELSE IF q.body.key = <<>>
             THEN /\ Arrive(Invocation(q, "done", <<>>, TextResponse(400, "Missing key")))
                  /\ UNCHANGED db
             ELSE \E ok \in BOOLEAN :
                  /\ nreq' = nreq + 1
                  /\ live' = (IF ok THEN BagOfAll(NoteDelete, live) ELSE live)
                               (+) SetToBag({Invocation(q, "done",
                                                        <<Call("delete", Outcome(ok))>>,
                                                        Ran(ok))})
                  /\ db' = IF ok THEN db \ Rows(q.body.key) ELSE db
          /\ UNCHANGED edge

\* index.ts:97-106
CacheUpdate ==
    /\ Free
    /\ \E q \in ManagementRequests :
          /\ Route(q) = "update"
          /\ IF ~q.body.json
             THEN /\ Arrive(Invocation(q, "done", <<>>, TextResponse(500, "e.message")))
                  /\ UNCHANGED db
             ELSE IF q.body.key = <<>> \/ q.body.text = <<>>
             THEN /\ Arrive(Invocation(q, "done", <<>>,
                                       TextResponse(400, "Missing key or text")))
                  /\ UNCHANGED db
             ELSE \E ok \in BOOLEAN :
                  /\ nreq' = nreq + 1
                  /\ live' = (IF ok THEN BagOfAll(NoteUpdate, live) ELSE live)
                               (+) SetToBag({Invocation(q, "done",
                                                        <<Call("update", Outcome(ok))>>,
                                                        Ran(ok))})
                  /\ db' = IF ok
                           THEN { IF row.cache_key = q.body.key
                                  THEN [row EXCEPT !.translated_text = q.body.text]
                                  ELSE row : row \in db }
                           ELSE db
          /\ UNCHANGED edge

\* ---------------------------------------------------------------- translate
\* index.ts:112-130: the body is not JSON or fails validation
TranslateReject ==
    /\ Free
    /\ \E q \in ValidRequests \cup InvalidRequests :
          /\ Route(q) = "translate"
          /\ ~q.body.json \/ Validate(q.body) # ""
          /\ Arrive(Invocation(q, "done", <<>>,
                               TextResponse(400, IF ~q.body.json THEN "Invalid JSON"
                                                 ELSE Validate(q.body))))
          /\ UNCHANGED <<db, edge>>

\* index.ts:112-147: the body is valid; the key is derived and the handler
\* suspends on cache.match
TranslateAccept ==
    /\ Free
    /\ \E q \in ValidRequests \cup InvalidRequests :
          /\ Route(q) = "translate"
          /\ q.body.json /\ Validate(q.body) = ""
          /\ Arrive(Invocation(q, "edge", <<>>, NoResponse))
          /\ UNCHANGED <<db, edge>>

\* An edge hit that returns the stored body as it is
EdgeMatchAsStored(v) ==
    /\ Quiet
    /\ v.pc = "edge"
    /\ \/ /\ CacheKeyOf(v) \in DOMAIN edge
          /\ Step(v, Return(v, Call("match", "hit"),
                            JsonResponse(edge[CacheKeyOf(v)], "HIT-EDGE")))
       \/ /\ CacheKeyOf(v) \notin DOMAIN edge
          /\ Step(v, [v EXCEPT !.pc = "db", !.trace = Append(@, Call("match", "miss"))])
       \/ Step(v, Return(v, Call("match", "error"), Uncaught))
    /\ UNCHANGED <<db, edge, nreq>>

\* index.ts:149-162: cache.match(cacheKey)
EdgeMatch(v) ==
    /\ Quiet
    /\ v.pc = "edge"
    /\ \/ /\ CacheKeyOf(v) \in DOMAIN edge
          /\ Step(v, Return(v, Call("match", "hit"),
                            JsonResponse([edge[CacheKeyOf(v)] EXCEPT !.source = "edge"],
                                         "HIT-EDGE")))
       \/ /\ CacheKeyOf(v) \notin DOMAIN edge
          /\ Step(v, [v EXCEPT !.pc = "db", !.trace = Append(@, Call("match", "miss"))])
       \/ Step(v, Return(v, Call("match", "error"), Uncaught))
    /\ UNCHANGED <<db, edge, nreq>>

EdgeTask(cacheKey, result) ==
    [kind |-> "edge", cacheKey |-> cacheKey, body |-> result, st |-> "pending"]

D1Task(key, text) ==
    [kind |-> "d1", cache_key |-> key, translated_text |-> text, st |-> "pending"]

\* A lookup that never finds the row
FirstNone(key) == {}

\* index.ts:165-167: the rows .first() chooses from
First(key) == Rows(key)

\* A D1 hit that schedules no edge store
BackfillNone(v, result) == {}

\* index.ts:177-180: the edge store scheduled on a D1 hit
Backfill(v, result) == { EdgeTask(CacheKeyOf(v), result) }

\* A D1 lookup that does not return on a hit and goes on to the provider
DbSelectFallsThrough(v) ==
    /\ Quiet
    /\ v.pc = "db"
    /\ \/ /\ First(TargetCacheKey(v)) # {}
          /\ Step(v, [v EXCEPT !.pc = "ai", !.trace = Append(@, Call("select", "hit"))])
       \/ /\ First(TargetCacheKey(v)) = {}
          /\ Step(v, [v EXCEPT !.pc = "ai", !.trace = Append(@, Call("select", "miss"))])
       \/ Step(v, Return(v, Call("select", "error"), Uncaught))
    /\ UNCHANGED <<db, edge, nreq>>

\* A D1 lookup whose failure is taken for a miss
DbSelectErrorIsMiss(v) ==
    /\ Quiet
    /\ v.pc = "db"
    /\ \/ /\ First(TargetCacheKey(v)) # {}
          /\ LET cached == CHOOSE row \in First(TargetCacheKey(v)) : TRUE
                 result == [original |-> Text(v),
                            translated |-> cached.translated_text,
                            source |-> "cache"]
             IN Step(v, [Return(v, Call("select", "hit"), JsonResponse(result, "HIT-D1"))
                           EXCEPT !.tasks = Backfill(v, result)])
       \/ /\ First(TargetCacheKey(v)) = {}
          /\ Step(v, [v EXCEPT !.pc = "ai", !.trace = Append(@, Call("select", "miss"))])
       \/ Step(v, [v EXCEPT !.pc = "ai", !.trace = Append(@, Call("select", "error"))])
    /\ UNCHANGED <<db, edge, nreq>>

\* index.ts:165-189: SELECT ... .first()
DbSelect(v) ==
    /\ Quiet
    /\ v.pc = "db"
    /\ \/ /\ First(TargetCacheKey(v)) # {}
          /\ LET cached == CHOOSE row \in First(TargetCacheKey(v)) : TRUE
                 result == [original |-> Text(v),
                            translated |-> cached.translated_text,
                            source |-> "cache"]
             IN Step(v, [Return(v, Call("select", "hit"), JsonResponse(result, "HIT-D1"))
                           EXCEPT !.tasks = Backfill(v, result)])
       \/ /\ First(TargetCacheKey(v)) = {}
          /\ Step(v, [v EXCEPT !.pc = "ai", !.trace = Append(@, Call("select", "miss"))])
       \/ Step(v, Return(v, Call("select", "error"), Uncaught))
    /\ UNCHANGED <<db, edge, nreq>>

\* Write-backs that leave the edge store out
WriteBacksD1Only(v, truncated_result, final_result) ==
    { D1Task(TargetCacheKey(v), truncated_result) }

\* index.ts:258-271: the two writes handed to ctx.waitUntil
WriteBacks(v, truncated_result, final_result) ==
    { D1Task(TargetCacheKey(v), truncated_result),
      EdgeTask(CacheKeyOf(v), final_result) }

\* index.ts:192-279: the provider call, truncation, the two detached writes
AiFetch(v) ==
    /\ Quiet
    /\ v.pc = "ai"
    /\ \E o \in ProviderOutcomes :
         LET ai == AiResult(o)
             truncated_result == Truncate(ai.translatedText)
             final_result == [original |-> Text(v),
                              translated |-> truncated_result,
                              source |-> "ai"]
         IN IF ai.thrown
            THEN Step(v, Return(v, Call("ai", o.kind), TextResponse(500, "AI Service Error")))
            ELSE Step(v, [Return(v, Call("ai", o.kind), JsonResponse(final_result, "MISS"))
                            EXCEPT !.raw = o.content,
                                   !.tasks = WriteBacks(v, truncated_result, final_result)])
    /\ UNCHANGED <<db, edge, nreq>>

\* ------------------------------------------------------------ detached tasks
\* A settlement whose failure replaces the response
SettleFailing(v, t, st) ==
    Step(v, [v EXCEPT !.tasks = (@ \ {t}) \cup {[t EXCEPT !.st = st]},
                      !.resp = IF st = "failed"
                               THEN TextResponse(500, "write failed") ELSE @])

\* Task t of invocation v settles with status st.
Settle(v, t, st) ==
    Step(v, [v EXCEPT !.tasks = (@ \ {t}) \cup {[t EXCEPT !.st = st]}])

\* An insert into a table without the UNIQUE constraint
DbInsertNoUnique(v) ==
    /\ Quiet
    /\ \E t \in v.tasks :
         /\ t.kind = "d1" /\ t.st = "pending"
         /\ \/ /\ db' = db \cup {[cache_key |-> t.cache_key,
                                  translated_text |-> t.translated_text]}
               /\ Settle(v, t, "stored")
            \/ /\ Settle(v, t, "failed")
               /\ UNCHANGED db
    /\ UNCHANGED <<edge, nreq>>

\* An insert that replaces the row of its key (INSERT OR REPLACE)
DbInsertReplace(v) ==
    /\ Quiet
    /\ \E t \in v.tasks :
         /\ t.kind = "d1" /\ t.st = "pending"
         /\ \/ /\ db' = (db \ Rows(t.cache_key))
                            \cup {[cache_key |-> t.cache_key,
                                   translated_text |-> t.translated_text]}
               /\ Settle(v, t, "stored")
            \/ /\ Settle(v, t, "failed")
               /\ UNCHANGED db
    /\ UNCHANGED <<edge, nreq>>

\* index.ts:261-264: INSERT INTO translations; cache_key is UNIQUE
\* (schema.sql:3); a rejection is logged by .catch
DbInsert(v) ==
    /\ Quiet
    /\ \E t \in v.tasks :
         /\ t.kind = "d1" /\ t.st = "pending"
         /\ \/ /\ Rows(t.cache_key) = {}
               /\ db' = db \cup {[cache_key |-> t.cache_key,
                                  translated_text |-> t.translated_text]}
               /\ Settle(v, t, "stored")
            \/ /\ Settle(v, t, "failed")
               /\ UNCHANGED db
    /\ UNCHANGED <<edge, nreq>>

\* index.ts:180 and 267-269: cache.put(cacheKey, response)
EdgePut(v) ==
    /\ Quiet
    /\ \E t \in v.tasks :
         /\ t.kind = "edge" /\ t.st = "pending"
         /\ \/ /\ edge' = Put(edge, t.cacheKey, t.body)
               /\ Settle(v, t, "stored")
            \/ /\ Settle(v, t, "failed")
               /\ UNCHANGED edge
    /\ UNCHANGED <<db, nreq>>

\* The edge cache drops an entry (expiry or eviction).
EdgeEvict(k) ==
    /\ Quiet
    /\ edge' = Drop(edge, k)
    /\ UNCHANGED <<live, db, nreq>>

\* A runtime that releases an invocation as soon as its response is out
FinishAtResponse(v) ==
    /\ v.pc = "done"
    /\ live' = live (-) SetToBag({v})
    /\ UNCHANGED <<db, edge, nreq>>

\* The response is out and every promise given to ctx.waitUntil has settled:
\* the runtime releases the invocation.
Finish(v) ==
    /\ Settled(v)
    /\ live' = live (-) SetToBag({v})
    /\ UNCHANGED <<db, edge, nreq>>

Next ==
    \/ Preflight
    \/ Unauthorized
    \/ NotFound
    \/ CacheList
    \/ CacheClear
    \/ CacheDelete
    \/ CacheUpdate
    \/ TranslateReject
    \/ TranslateAccept
    \/ \E v \in Invocations : EdgeMatch(v)
    \/ \E v \in Invocations : DbSelect(v)
    \/ \E v \in Invocations : AiFetch(v)
    \/ \E v \in Invocations : DbInsert(v)
    \/ \E v \in Invocations : EdgePut(v)
    \/ \E k \in DOMAIN edge : EdgeEvict(k)
    \/ \E v \in Invocations : Finish(v)

Spec == Init /\ [][Next]_vars

\* ------------------------------------------------------------------ claims
Done(v)      == v.pc = "done"
LastCall(v)  == IF v.trace = <<>> THEN Call("", "") ELSE v.trace[Len(v.trace)]
Called(v, op) == \E i \in 1..Len(v.trace) : v.trace[i].op = op
FullMiss(v, kinds) ==
    /\ Done(v)
    /\ Len(v.trace) = 3
    /\ LastCall(v).op = "ai"
    /\ LastCall(v).res \in kinds

\* C1: the edge cache is probed before the D1 table, the table only after an
\* edge miss, and the provider is called only after both tiers missed, at
\* most once per request.
C1_TierOrder ==
    \A v \in Invocations :
        /\ \A i \in 1..Len(v.trace) :
              /\ v.trace[i].op = "match" => i = 1
              /\ v.trace[i].op = "select" =>
                    i = 2 /\ v.trace[1] = Call("match", "miss")
              /\ v.trace[i].op = "ai" =>
                    /\ i = 3
                    /\ v.trace[1] = Call("match", "miss")
                    /\ v.trace[2] = Call("select", "miss")
        /\ Cardinality({ i \in 1..Len(v.trace) : v.trace[i].op = "ai" }) <= 1
        /\ v.pc = "db" => v.trace = <<Call("match", "miss")>>
        /\ v.pc = "ai" => v.trace = <<Call("match", "miss"), Call("select", "miss")>>

\* A request that went through both tiers and the provider, and one that
\* found its row in D1 and returned without the provider.
C1_Witness ==
    /\ \E v \in Invocations : FullMiss(v, {"content"})
    /\ \E v \in Invocations : Done(v) /\ LastCall(v) = Call("select", "hit")

\* C2: a body whose text or locale is empty, or whose text is longer than 64
\* characters, is answered with a validation error before any tier or the
\* provider is touched; a text of exactly 64 characters passes.
C2_Validation ==
    \A v \in Invocations :
        (Route(v.req) = "translate" /\ v.req.body.json) =>
            /\ (Text(v) = <<>> \/ Locale(v) = <<>> \/ Length(Text(v)) > 64) =>
                  /\ Done(v)
                  /\ v.resp.status = 400
                  /\ v.trace = <<>>
                  /\ v.tasks = {}
            /\ (Length(Text(v)) = 64 /\ Locale(v) # <<>>) =>
                  /\ v.resp.status # 400
                  /\ v.pc = "edge" \/ Called(v, "match")

\* A text of 65 characters refused while a text of 64 characters is past
\* validation.
C2_Witness ==
    /\ \E v \in Invocations :
          Length(Text(v)) = 65 /\ Locale(v) # <<>> /\ v.resp.status = 400
    /\ \E v \in Invocations :
          Length(Text(v)) = 64 /\ Route(v.req) = "translate" /\ v.pc = "edge"

\* C3: a request that arrives when D1 holds a row for its key, with no
\* management delete since, never calls the provider.
C3_NoProviderOnceStored ==
    \A v \in Invocations :
        (v.startRow /\ "delete" \notin v.admin) =>
            v.pc # "ai" /\ ~Called(v, "ai")

\* Such a request, answered from D1 after the edge entry was lost.
C3_Witness ==
    \E v \in Invocations :
        /\ v.startRow
        /\ v.admin = {}
        /\ Done(v)
        /\ LastCall(v) = Call("select", "hit")
        /\ IsResult(v.resp)

\* C4: once a tier holds a value for a key, a request for the same text and
\* locale that arrives later returns the same translated value as every
\* other request for that text and locale, whatever the interleaving of
\* write-backs and edge expiry (no management write in between).
C4_Idempotent ==
    \A v, w \in Invocations :
        ( /\ Text(v) = Text(w) /\ Locale(v) = Locale(w)
          /\ Done(v) /\ IsResult(v.resp) /\ v.admin = {}
          /\ Done(w) /\ IsResult(w.resp) /\ w.admin = {}
          /\ w.expect # {} )
        => w.resp.translated = v.resp.translated

\* The text a detached write carries
TaskText(t) == IF t.kind = "d1" THEN t.translated_text ELSE t.body.translated

\* In this step invocation u moved on to w.
Moved(u, w) ==
    /\ CopiesIn(u, live) > CopiesIn(u, live')
    /\ CopiesIn(w, live') > CopiesIn(w, live)
    /\ w.req = u.req
    /\ w.admin = u.admin

C5_TruncatedValue ==
    \A v \in Invocations :
        (FullMiss(v, {"content"}) /\ Length(Trim(v.raw)) > 64) =>
            /\ Length(v.resp.translated) = 64
            /\ v.resp.translated = Substring0(Trim(v.raw), 64)
            /\ v.tasks # {}
            /\ \A t \in v.tasks : TaskText(t) = v.resp.translated

\* A write that succeeds leaves the text it carries in its tier.
C5_StoreKeeps ==
    \A u \in BagToSet(live), w \in BagToSet(live') :
        Moved(u, w) =>
            \A t \in u.tasks :
                (t.st = "pending"
                   /\ w.tasks = (u.tasks \ {t}) \cup {[t EXCEPT !.st = "stored"]}) =>
                    IF t.kind = "d1"
                    THEN [cache_key |-> t.cache_key,
                          translated_text |-> t.translated_text] \in db'
                    ELSE /\ t.cacheKey \in DOMAIN edge'
                         /\ edge'[t.cacheKey].translated = t.body.translated

\* A hit returns the text its tier holds.
C5_HitReturns ==
    \A u \in BagToSet(live), w \in BagToSet(live') :
        Moved(u, w) =>
            /\ (u.pc = "edge" /\ w.trace = <<Call("match", "hit")>>) =>
                  /\ CacheKeyOf(u) \in DOMAIN edge
                  /\ w.resp.translated = edge[CacheKeyOf(u)].translated
            /\ (u.pc = "db" /\ LastCall(w) = Call("select", "hit")) =>
                  /\ Rows(TargetCacheKey(u)) # {}
                  /\ \A row \in Rows(TargetCacheKey(u)) :
                        w.resp.translated = row.translated_text

C6_Bounded ==
    /\ \A row \in db : Length(row.translated_text) <= 64
    /\ \A k \in DOMAIN edge : Length(edge[k].translated) <= 64
    /\ \A v \in Invocations : IsResult(v.resp) => Length(v.resp.translated) <= 64

\* C7: when the provider call fails on a full miss (transport error or
\* non-success status) the request ends in an upstream error, no result is
\* returned and no write to either tier is scheduled.
C7_ProviderFailure ==
    \A v \in Invocations :
        FullMiss(v, {"throw", "status"}) =>
            /\ v.resp.status = 500
            /\ ~IsResult(v.resp)
            /\ v.resp.translated = NoText
            /\ v.tasks = {}

\* A full miss whose provider call answered with a non-success status.
C7_Witness ==
    \E v \in Invocations :
        FullMiss(v, {"status"}) /\ v.resp = TextResponse(500, "AI Service Error")

\* C8: a provider answer with success status that lacks the expected payload
\* shape ends the request in an error: no result is returned and nothing is
\* scheduled to be written to either tier.
C8_ShapeFailure ==
    \A v \in Invocations :
        FullMiss(v, {"notjson", "nochoices", "emptychoices", "nomessage"}) =>
            /\ ~IsResult(v.resp)
            /\ v.tasks = {}

\* C9: on an edge miss followed by a D1 hit the response has source cache
\* and carries the stored text, one edge store for the request's cache key
\* with that text is scheduled while the response is already out, and once
\* that store has succeeded the edge cache holds that value.
C9_Backfill ==
    \A v \in Invocations :
        (Done(v) /\ v.trace = <<Call("match", "miss"), Call("select", "hit")>>) =>
            /\ IsResult(v.resp)
            /\ v.resp.source = "cache"
            /\ v.admin = {} =>
                  /\ Rows(DeriveKey(Text(v), Locale(v))) # {}
                  /\ \A row \in Rows(DeriveKey(Text(v), Locale(v))) :
                        row.translated_text = v.resp.translated
            /\ Cardinality(v.tasks) = 1
            /\ \A t \in v.tasks :
                  /\ t.kind = "edge"
                  /\ t.cacheKey = CacheKey(v.req.url, DeriveKey(Text(v), Locale(v)))
                  /\ t.body.translated = v.resp.translated
                  /\ t.st = "stored" =>
                        /\ t.cacheKey \in DOMAIN edge
                        /\ edge[t.cacheKey].translated = v.resp.translated

\* A D1 hit whose edge store has succeeded.
C9_Witness ==
    \E v \in Invocations :
        /\ v.trace = <<Call("match", "miss"), Call("select", "hit")>>
        /\ v.resp.source = "cache"
        /\ \E t \in v.tasks : t.kind = "edge" /\ t.st = "stored"

\* C10: on a full miss with a successful provider call the response has
\* source ai and exactly two writes are scheduled, one D1 insert and one
\* edge store, both carrying the truncated text that was returned and both
\* addressed by the key derived for the request.
C10_TwoWrites ==
    \A v \in Invocations :
        FullMiss(v, {"content"}) =>
            /\ IsResult(v.resp)
            /\ v.resp.source = "ai"
            /\ Length(v.resp.translated) <= 64
            /\ Cardinality(v.tasks) = 2
            /\ \E t \in v.tasks :
                  /\ t.kind = "d1"
                  /\ t.cache_key = DeriveKey(Text(v), Locale(v))
                  /\ t.translated_text = v.resp.translated
            /\ \E t \in v.tasks :
                  /\ t.kind = "edge"
                  /\ t.cacheKey = CacheKey(v.req.url, DeriveKey(Text(v), Locale(v)))
                  /\ t.body.translated = v.resp.translated

\* A full miss just returned, both writes still pending.
C10_Witness ==
    \E v \in Invocations :
        /\ FullMiss(v, {"content"})
        /\ v.resp.source = "ai"
        /\ Cardinality({ t \in v.tasks : t.st = "pending" }) = 2

\* A write-back of v has failed.
WriteFailed(v) == \E t \in v.tasks : t.st = "failed"

\* Whatever happens to an invocation once it has returned leaves its response
\* as it was.
C11_ResponseKept ==
    \A u \in BagToSet(live), w \in BagToSet(live') :
        (Moved(u, w) /\ Done(u)) =>
            /\ Done(w)
            /\ w.resp = u.resp
            /\ w.trace = u.trace

\* Write-backs belong to invocations that have returned a result, and a
\* failed write-back leaves that result a success.
C11_FailureUnseen ==
    \A v \in Invocations :
        /\ v.tasks # {} => Done(v) /\ IsResult(v.resp)
        /\ WriteFailed(v) =>
              /\ v.resp.status = 200
              /\ \A t \in v.tasks : TaskText(t) = v.resp.translated

\* C11: the response of a request is fixed before its write-backs run and
\* their outcome, a failed D1 insert (a UNIQUE rejection included) or a
\* failed edge store, never turns it into an error or changes the result.
C11_ResponseFixed ==
    /\ []C11_FailureUnseen
    /\ [][C11_ResponseKept]_vars

\* A full miss both of whose write-backs failed, and one whose insert was
\* refused while another request's row is in the table.
C11_Witness ==
    /\ \E v \in Invocations :
          FullMiss(v, {"content"}) /\ \A t \in v.tasks : t.st = "failed"
    /\ \E v \in Invocations :
          \E t \in v.tasks :
              t.kind = "d1" /\ t.st = "failed" /\ Rows(t.cache_key) # {}

\* C12: an error raised by the edge cache during the probe is treated as a
\* miss, the request goes on to the D1 lookup and does not end in an error
\* because of the edge tier; an error during an edge store does not fail the
\* request either.
C12_EdgeErrorIsMiss ==
    \A v \in Invocations :
        /\ (v.trace # <<>> /\ v.trace[1] = Call("match", "error")) =>
              /\ v.resp.status < 500
              /\ v.pc = "db" \/ Called(v, "select")
        /\ (\E t \in v.tasks : t.kind = "edge" /\ t.st = "failed") =>
              IsResult(v.resp)

\* C13: when the D1 lookup fails the request ends in a 5xx error: no result
\* is returned, the provider is not called and no write is scheduled.
C13_SelectFailure ==
    \A v \in Invocations :
        Called(v, "select") /\ v.trace[2].res = "error" =>
            /\ Done(v)
            /\ v.resp.status >= 500
            /\ ~IsResult(v.resp)
            /\ v.resp.translated = NoText
            /\ ~Called(v, "ai")
            /\ v.tasks = {}

\* A request whose D1 lookup failed after an edge miss.
C13_Witness ==
    \E v \in Invocations :
        /\ v.trace = <<Call("match", "miss"), Call("select", "error")>>
        /\ v.resp = Uncaught

\* The invocation has passed validation on the translate route.
Keyed(v) == Route(v.req) = "translate" /\ (v.pc # "done" \/ v.trace # <<>>)

\* C14: two valid (text, locale) pairs that differ in text or in locale get
\* different cache keys, so a request is never answered with the entry of
\* another pair.
C14_KeysSeparate ==
    /\ \A v, w \in Invocations :
          (Keyed(v) /\ Keyed(w) /\ (Text(v) # Text(w) \/ Locale(v) # Locale(w))) =>
              TargetCacheKey(v) # TargetCacheKey(w)
    /\ \A v \in Invocations :
          (Keyed(v) /\ IsResult(v.resp)) => v.resp.original = Text(v)

\* A management statement ran in this step.
ManagementRan ==
    \E w \in BagToSet(live') :
        /\ CopiesIn(w, live') > CopiesIn(w, live)
        /\ w.trace # <<>>
        /\ w.trace[1].op \in {"list", "clear", "delete", "update"}

\* The table holds one row per key at most.
C15_OneRowPerKey ==
    \A r1, r2 \in db : r1.cache_key = r2.cache_key => r1 = r2

\* A step of the translate path keeps every row of the table as it is.
C15_RowsKept == ManagementRan \/ db \subseteq db'

\* C15: the translate path never updates or deletes a row: once a key has a
\* row, a later insert for that key leaves its translated_text unchanged, and
\* the table never holds more than one row per key.
C15_WriteOnce ==
    /\ []C15_OneRowPerKey
    /\ [][C15_RowsKept]_vars

\* An insert refused while the table holds a different text for its key.
C15_Witness ==
    \E v \in Invocations :
        \E t \in v.tasks :
            /\ t.kind = "d1" /\ t.st = "failed"
            /\ \E row \in Rows(t.cache_key) :
                  row.translated_text # t.translated_text

\* v went through both misses and the provider and scheduled its write-backs.
WroteBack(v) ==
    /\ Len(v.trace) = 3
    /\ LastCall(v).op = "ai"
    /\ v.tasks # {}

InsertIs(v, st) == \E t \in v.tasks : t.kind = "d1" /\ t.st = st

\* v and w are two invocations for one (text, locale) that both missed both
\* tiers and both called the provider, with no management delete meanwhile.
BothMissed(v, w) ==
    /\ v # w \/ CopiesIn(v, live) >= 2
    /\ Text(v) = Text(w) /\ Locale(v) = Locale(w)
    /\ WroteBack(v) /\ WroteBack(w)
    /\ "delete" \notin (v.admin \cup w.admin)

\* C17: there is no single-flight: two concurrent requests for one (text,
\* locale) may both miss both tiers, both call the provider and both schedule
\* write-backs; both then return a successful result, and at most one of the
\* two inserts is accepted, the other being refused without failing either
\* request.
C17_NoSingleFlight ==
    \A v, w \in Invocations :
        BothMissed(v, w) =>
            /\ IsResult(v.resp) /\ v.resp.status = 200
            /\ IsResult(w.resp) /\ w.resp.status = 200
            /\ ~(InsertIs(v, "stored") /\ InsertIs(w, "stored"))

\* Two such requests, answered with different texts: the insert of one is
\* in the table, the insert of the other was refused.
C17_Witness ==
    \E v, w \in Invocations :
        /\ BothMissed(v, w)
        /\ v.resp.translated # w.resp.translated
        /\ InsertIs(v, "stored")
        /\ InsertIs(w, "failed")
        /\ IsResult(v.resp) /\ IsResult(w.resp)

\* C18: when a write-back of a miss-path request fails, the D1 insert while
\* the edge store goes its own way included, no entry for the key
\* materializes from that request, so that the next request for the key
\* misses both tiers and calls the provider again.
C18_NothingMaterializes ==
    \A v \in Invocations :
        (nreq = 1 /\ WroteBack(v) /\ WriteFailed(v)) =>
            Cached(TargetCacheKey(v)) = {}

\* C19: the source tag of a successful response names the tier that supplied
\* the value: edge exactly when the edge probe hit (no D1 lookup, no provider
\* call), cache exactly when the edge probe missed and the D1 lookup hit (no
\* provider call), ai exactly when the provider was called; the tag stored
\* inside an edge entry does not show in a response.
C19_SourceTag ==
    \A v \in Invocations :
        IsResult(v.resp) =>
            /\ v.resp.source \in {"edge", "cache", "ai"}
            /\ v.resp.source = "edge" <=> v.trace = <<Call("match", "hit")>>
            /\ v.resp.source = "cache" <=>
                  v.trace = <<Call("match", "miss"), Call("select", "hit")>>
            /\ v.resp.source = "ai" <=> Called(v, "ai")
            /\ v.resp.source = "ai" =>
                  /\ Len(v.trace) = 3
                  /\ v.trace[1] = Call("match", "miss")
                  /\ v.trace[2] = Call("select", "miss")

\* An edge hit on an entry stored with the tag ai, answered with the tag edge.
C19_Witness ==
    \E v \in Invocations :
        /\ v.trace = <<Call("match", "hit")>>
        /\ v.resp.source = "edge"
        /\ CacheKeyOf(v) \in DOMAIN edge
        /\ edge[CacheKeyOf(v)].source = "ai"
        /\ edge[CacheKeyOf(v)].translated = v.resp.translated

\* ------------------------------------------- one pair, several request URLs
\* Requests for one (text, locale) that differ in path, query string or host
RoutedRequests ==
    { Translate(ProdOrigin, Root, Text64, LocZ),
      Translate(ProdOrigin, TranslatePath, Text64, LocZ),
      [Translate(ProdOrigin, Root, Text64, LocZ) EXCEPT !.url.search = "?v=1"],
      Translate(DevOrigin, Root, Text64, LocZ) }

\* index.ts:112-147, for the requests above
TranslateAcceptRouted ==
    /\ Free
    /\ \E q \in RoutedRequests :
          /\ Route(q) = "translate"
          /\ q.body.json /\ Validate(q.body) = ""
          /\ Arrive(Invocation(q, "edge", <<>>, NoResponse))
          /\ UNCHANGED <<db, edge>>

NextRouted ==
    \/ TranslateAcceptRouted
    \/ \E v \in Invocations : EdgeMatch(v)
    \/ \E v \in Invocations : DbSelect(v)
    \/ \E v \in Invocations : AiFetch(v)
    \/ \E v \in Invocations : DbInsert(v)
    \/ \E v \in Invocations : EdgePut(v)
    \/ \E k \in DOMAIN edge : EdgeEvict(k)
    \/ \E v \in Invocations : Finish(v)

SpecRouted == Init /\ [][NextRouted]_vars

\* C16: the key used in each tier depends on (text, locale) only: two valid
\* requests with the same text and locale use the same D1 key and the same
\* edge cache key, whatever their path, query string or host.
C16_OneEntryPerPair ==
    \A v, w \in Invocations :
        (Keyed(v) /\ Keyed(w) /\ Text(v) = Text(w) /\ Locale(v) = Locale(w)) =>
            /\ TargetCacheKey(v) = TargetCacheKey(w)
            /\ CacheKeyOf(v) = CacheKeyOf(w)
            /\ \A t \in v.tasks, x \in w.tasks :
                  (t.kind = "edge" /\ x.kind = "edge") => t.cacheKey = x.cacheKey

\* ------------------------------------------------- the two-tier variant
\* src/unnamed/part_001: the worker without the edge tier.  It is run side by
\* side with the three-tier handler whose edge cache always misses and drops
\* what is stored in it: one request at a time, both from the same table,
\* with the same provider answer and the same D1 behaviour.

\* What the provider answers, in terms both workers understand: the call
\* throws, the answer lacks the payload, or it carries a text.
SharedOutcomes ==
    { o \in ProviderOutcomes : o.kind \in {"throw", "nochoices", "content"} }

\* part_001:88-106: translatedText, or thrown = TRUE when the catch block at
\* 103 is entered
AiResultTwoTier(o) ==
    CASE o.kind = "throw" ->
           [thrown |-> TRUE, translatedText |-> <<>>]
      [] o.kind = "nochoices" ->
           [thrown |-> FALSE, translatedText |-> TranslationError]
      [] OTHER ->
           [thrown |-> FALSE, translatedText |-> o.content]

\* INSERT INTO translations (cache_key, translated_text), detached; the
\* table after it
Inserted(key, text, insertOk) ==
    IF insertOk /\ Rows(key) = {}
    THEN db \cup {[cache_key |-> key, translated_text |-> text]}
    ELSE db

\* part_001:52-124 for a request that is past validation: the response and
\* the table once the detached insert has settled
TwoTier(q, o, selectOk, insertOk) ==
    LET text == q.body.text
        target_cache_key == DeriveKey(text, q.body.locale)
    IN IF ~selectOk THEN [resp |-> Uncaught, db |-> db]
       ELSE IF Rows(target_cache_key) # {}
       THEN LET cached == CHOOSE row \in Rows(target_cache_key) : TRUE
            IN [resp |-> JsonResponse([original |-> text,
                                       translated |-> cached.translated_text,
                                       source |-> "cache"], ""),
                db |-> db]
       ELSE LET ai == AiResultTwoTier(o)
                truncated_result == Substring0(ai.translatedText, 64)
            IN IF ai.thrown
               THEN [resp |-> TextResponse(500, "AI Service Error"), db |-> db]
               ELSE [resp |-> JsonResponse([original |-> text,
                                            translated |-> truncated_result,
                                            source |-> "ai"], ""),
                     db |-> Inserted(target_cache_key, truncated_result, insertOk)]

\* index.ts:121-280 for the same request when cache.match always misses and
\* cache.put stores nothing
ThreeTierNoEdge(q, o, selectOk, insertOk) ==
    LET text == q.body.text
        target_cache_key == DeriveKey(text, q.body.locale)
    IN IF ~selectOk THEN [resp |-> Uncaught, db |-> db]
       ELSE IF First(target_cache_key) # {}
       THEN LET cached == CHOOSE row \in First(target_cache_key) : TRUE
            IN [resp |-> JsonResponse([original |-> text,
                                       translated |-> cached.translated_text,
                                       source |-> "cache"], "HIT-D1"),
                db |-> db]
       ELSE LET ai == AiResult(o)
                truncated_result == Truncate(ai.translatedText)
            IN IF ai.thrown
               THEN [resp |-> TextResponse(500, "AI Service Error"), db |-> db]
               ELSE [resp |-> JsonResponse([original |-> text,
                                            translated |-> truncated_result,
                                            source |-> "ai"], "MISS"),
                     db |-> Inserted(target_cache_key, truncated_result, insertOk)]

\* One validated request is served by both workers; the run goes on from the
\* table the three-tier handler leaves.  Requests come one after another, so
\* a run may be one request longer than a run of overlapping invocations.
ServeBoth ==
    /\ nreq < MaxRequests + 1
    /\ \E q \in ValidRequests, o \in SharedOutcomes, selectOk, insertOk \in BOOLEAN :
          /\ Validate(q.body) = ""
          /\ live' = SetToBag({[req |-> q, out |-> o,
                                two |-> TwoTier(q, o, selectOk, insertOk),
                                three |-> ThreeTierNoEdge(q, o, selectOk, insertOk)]})
          /\ db' = ThreeTierNoEdge(q, o, selectOk, insertOk).db
          /\ nreq' = nreq + 1
    /\ UNCHANGED edge

NextVariants == ServeBoth

SpecVariants == Init /\ [][NextVariants]_vars

\* What the caller sees of a response: error or result, the translated value
\* and the source tag.
Seen(rs) ==
    [status |-> rs.status, original |-> rs.original, translated |-> rs.translated,
     source |-> rs.source]

\* C20: for every sequence of validated requests with the same provider
\* outputs the two-tier worker gives the same outcome (translated value,
\* source cache or ai, or error) and leaves the same table as the three-tier
\* handler run with an edge cache that always misses and drops its stores.
C20_SameAsThreeTier ==
    \A x \in BagToSet(live) :
        /\ Seen(x.two.resp) = Seen(x.three.resp)
        /\ x.two.db = x.three.db

\* ----------------------------------------------------------------- progress
\* Every tier call and every provider call returns, every promise handed to
\* ctx.waitUntil settles, and the runtime releases an invocation whose
\* response is out and whose promises have settled. Arrivals and evictions
\* are up to the environment.
Fairness ==
    /\ WF_vars(\E v \in Invocations : EdgeMatch(v))
    /\ WF_vars(\E v \in Invocations : DbSelect(v))
    /\ WF_vars(\E v \in Invocations : AiFetch(v))
    /\ WF_vars(\E v \in Invocations : DbInsert(v))
    /\ WF_vars(\E v \in Invocations : EdgePut(v))
    /\ WF_vars(\E v \in Invocations : Finish(v))

SpecFair == Init /\ [][Next]_vars /\ Fairness

\* The writes the handler of v has handed to ctx.waitUntil, whatever their
\* state: the key or entry each one addresses.
Scheduled(v) ==
    { IF t.kind = "d1" THEN <<"d1", t.cache_key>> ELSE <<"edge", t.cacheKey>> :
        t \in v.tasks }

\* The writes the path taken by v schedules.
Owed(v) ==
    IF LastCall(v) = Call("select", "hit")
    THEN { <<"edge", CacheKeyOf(v)>> }
    ELSE IF IsResult(v.resp) /\ LastCall(v).op = "ai"
    THEN { <<"d1", TargetCacheKey(v)>>, <<"edge", CacheKeyOf(v)>> }
    ELSE {}

\* An invocation whose handler has returned has a terminal outcome, and the
\* writes it scheduled are all still with it, pending or settled.
C21_NothingDropped ==
    \A v \in Invocations :
        /\ Done(v) <=> v.resp # NoResponse
        /\ Done(v) => Scheduled(v) = Owed(v)
        /\ ~Done(v) => v.tasks = {}

\* An invocation is released only once its response is out and every write
\* it scheduled has settled.
C21_ReleasedSettled ==
    BagCardinality(live') < BagCardinality(live) =>
        \E u \in Invocations : Settled(u) /\ live' = live (-) SetToBag({u})

C22_OriginalIsText ==
    \A v \in Invocations :
        (Done(v) /\ IsResult(v.resp)) => v.resp.original = Text(v)

\* ------------------------------------------- the two-tier worker on its own
\* src/unnamed/part_001 as a worker of its own: it takes one request at a
\* time, of any method, path and Authorization header, and `live` holds
\* what became of the last one: the response and the calls made for it.

\* part_001:30-42: the branch a request takes before its body is read
RouteTwoTier(q) ==
    IF q.method = "OPTIONS" THEN "preflight"
    ELSE IF q.method # "POST" THEN "notallowed"
    ELSE IF q.auth = "" \/ q.auth # API_TOKEN THEN "unauthorized"
    ELSE "translate"

Handled(q, rs, calls) == [req |-> q, resp |-> rs, calls |-> calls]

\* The request is answered before any tier is touched.
Refuse(q, rs) ==
    /\ nreq < MaxRequests + 1
    /\ nreq' = nreq + 1
    /\ live' = SetToBag({Handled(q, rs, <<>>)})
    /\ UNCHANGED <<db, edge>>

\* part_001:30-32
PreflightTwoTier ==
    \E q \in Requests :
        /\ RouteTwoTier(q) = "preflight"
        /\ Refuse(q, TextResponse(200, ""))

\* part_001:35-37
NotAllowedTwoTier ==
    \E q \in Requests :
        /\ RouteTwoTier(q) = "notallowed"
        /\ Refuse(q, TextResponse(405, "Method Not Allowed"))

\* part_001:39-42
UnauthorizedTwoTier ==
    \E q \in Requests :
        /\ RouteTwoTier(q) = "unauthorized"
        /\ Refuse(q, TextResponse(401, "Unauthorized"))

\* part_001:45-61
RejectTwoTier ==
    \E q \in Requests :
        /\ RouteTwoTier(q) = "translate"
        /\ ~q.body.json \/ Validate(q.body) # ""
        /\ Refuse(q, TextResponse(400, IF ~q.body.json THEN "Invalid JSON"
                                       ELSE Validate(q.body)))

\* part_001:75-117: the statements and the provider call made for a
\* validated request
CallsTwoTier(q, o, selectOk) ==
    IF ~selectOk \/ Rows(DeriveKey(q.body.text, q.body.locale)) # {}
    THEN <<"select">>
    ELSE IF AiResultTwoTier(o).thrown THEN <<"select", "ai">>
    ELSE <<"select", "ai", "insert">>

\* part_001:63-124
TranslateTwoTier ==
    /\ nreq < MaxRequests + 1
    /\ \E q \in Requests, o \in SharedOutcomes, selectOk, insertOk \in BOOLEAN :
          /\ RouteTwoTier(q) = "translate"
          /\ q.body.json /\ Validate(q.body) = ""
          /\ live' = SetToBag({Handled(q, TwoTier(q, o, selectOk, insertOk).resp,
                                       CallsTwoTier(q, o, selectOk))})
          /\ db' = TwoTier(q, o, selectOk, insertOk).db
          /\ nreq' = nreq + 1
    /\ UNCHANGED edge

NextTwoTier ==
    \/ PreflightTwoTier
    \/ NotAllowedTwoTier
    \/ UnauthorizedTwoTier
    \/ RejectTwoTier
    \/ TranslateTwoTier

SpecTwoTier == Init /\ [][NextTwoTier]_vars

\* The request carries no Authorization header or one that is not the token.
NoToken(q) == q.auth = "" \/ q.auth # API_TOKEN

\* C23: a request that is not OPTIONS and whose Authorization header is
\* missing or is not the configured token is answered 401, and no tier is
\* read or written, the provider is not called and no write-back is
\* scheduled for it.
C23_UnauthorizedRefused ==
    \A x \in BagToSet(live) :
        (x.req.method # "OPTIONS" /\ NoToken(x.req)) =>
            /\ x.resp = TextResponse(401, "Unauthorized")
            /\ x.calls = <<>>

\* ------------------------------------------------ writes outside development
\* A request that is not recognised as a development request: https, a
\* hostname without localhost and without 127.0.0.1, and no port.
Production(url) ==
    /\ url.protocol = "https:"
    /\ ~Includes(url.hostname, <<"localhost">>)
    /\ ~Includes(url.hostname, <<"127.0.0.1">>)
    /\ url.port = ""

\* The invocation ran a statement that deletes rows or rewrites a row.
Rewrote(v) ==
    \E i \in 1..Len(v.trace) : v.trace[i].op \in {"clear", "delete", "update"}

\* No request from outside development runs a deleting or rewriting statement.
C24_NoManagement ==
    \A v \in Invocations : Production(v.req.url) => ~Rewrote(v)

\* A step that removes a row or changes one is the arrival of a development
\* request that ran a management statement.
C24_RowsKept ==
    \/ db \subseteq db'
    \/ \E w \in BagToSet(live') :
          /\ CopiesIn(w, live') > CopiesIn(w, live)
          /\ ~Production(w.req.url)
          /\ Rewrote(w)

\* A step that adds a row is the insert scheduled on the miss path, for a
\* key that has no row.
C24_OnlyInsert ==
    (db \subseteq db' /\ db' # db) =>
        \E u \in Invocations, w \in BagToSet(live') :
            /\ Moved(u, w)
            /\ Done(u) /\ WroteBack(u)
            /\ \E t \in u.tasks :
                  /\ t.kind = "d1" /\ t.st = "pending"
                  /\ [t EXCEPT !.st = "stored"] \in w.tasks
                  /\ Rows(t.cache_key) = {}
                  /\ db' = db \cup {[cache_key |-> t.cache_key,
                                      translated_text |-> t.translated_text]}

\* C24: a request that is not recognised as a development request, whatever
\* its path and method, never deletes a row of the table and never changes
\* the translated_text of an existing row; the only write to the table it
\* can reach is the insert of the miss path.
C24_NonDevWrites ==
    /\ []C24_NoManagement
    /\ [][C24_RowsKept /\ C24_OnlyInsert]_vars

\* A POST to /cache/delete from outside development is answered 404 while
\* the table holds a row for the key it names.
C24_Witness ==
    \E v \in Invocations :
        /\ Production(v.req.url)
        /\ v.req.method = "POST"
        /\ v.req.url.pathname = DeletePath
        /\ v.resp.status = 404
        /\ Rows(v.req.body.key) # {}

====
